---- MODULE Spec2Model ----
(***************************************************************************)
(* Model of time_coach.py: the task store, the free-slot computation and   *)
(* the greedy task packer.                                                  *)
(*                                                                         *)
(* Time is an instant counted in minutes from local midnight of the        *)
(* current date.  Every datetime of the program (day_start, day_end, the   *)
(* event bounds, the slot bounds) is timezone-aware and is compared and    *)
(* subtracted as an instant, so the minute count carries all of it.        *)
(***************************************************************************)
EXTENDS Integers, Sequences, FiniteSets, TLC

\* None: the value of start_time / end_time of an unscheduled task, and of a
\* missing 'dateTime' key of a calendar event (an all-day event).
NoTime == -1

Max(a, b) == IF a >= b THEN a ELSE b
Min(a, b) == IF a <= b THEN a ELSE b

\* ------------------------------------------------------------------------
\* Bounds of the model
\* ------------------------------------------------------------------------
MaxTasks == 2          \* add_task is offered while the list is shorter
MaxEvents == 2         \* length of the busy list drawn for find_free_slots

\* ------------------------------------------------------------------------
\* find_free_slots (lines 100-122)
\* ------------------------------------------------------------------------

\* lines 101-108: keep the events that carry both dateTime values
RECURSIVE busy_slots(_)
busy_slots(events) ==
    IF events = <<>> THEN <<>>
    ELSE LET event == Head(events)
             rest == busy_slots(Tail(events))
         IN  IF event.start # NoTime /\ event.end # NoTime
             THEN << <<event.start, event.end>> >> \o rest
             ELSE rest

\* tuple order of Python: first component, then second
TupleLess(a, b) == a[1] < b[1] \/ (a[1] = b[1] /\ a[2] < b[2])

\* line 110: busy_slots.sort(), a stable sort in tuple order
RECURSIVE sort_busy(_)
sort_busy(s) ==
    IF s = <<>> THEN <<>>
    ELSE LET sorted == sort_busy(SubSeq(s, 1, Len(s) - 1))
             x == s[Len(s)]
             k == Cardinality({i \in 1..Len(sorted) : ~TupleLess(x, sorted[i])})
         IN  SubSeq(sorted, 1, k) \o <<x>> \o SubSeq(sorted, k + 1, Len(sorted))

\* line 117 with the end of the busy interval dropped in for max(current, end)
advance_no_max(current, end) == end

\* line 117: current = max(current, end)
advance(current, end) == Max(current, end)

\* line 115 without the test: the gap is emitted whatever its width
gap_unguarded(current, start, free_slots) == Append(free_slots, <<current, start>>)

\* lines 115-116: if current < start: free_slots.append((current, start))
gap(current, start, free_slots) ==
    IF current < start THEN Append(free_slots, <<current, start>>) ELSE free_slots

\* lines 114-117: the loop over the sorted busy intervals
RECURSIVE scan(_, _, _, _)
scan(busy, i, current, free_slots) ==
    IF i > Len(busy) THEN [current |-> current, free_slots |-> free_slots]
    ELSE scan(busy, i + 1, advance(current, busy[i][2]),
              gap(current, busy[i][1], free_slots))

\* lines 100-122
find_free_slots(events, day_start, day_end) ==
    LET r == scan(sort_busy(busy_slots(events)), 1, day_start, <<>>)
    IN  IF r.current < day_end
        THEN Append(r.free_slots, <<r.current, day_end>>)
        ELSE r.free_slots

\* ------------------------------------------------------------------------
\* Task records and the packer (lines 67-98, 124-159)
\* ------------------------------------------------------------------------

\* lines 68-77: the record add_task builds
new_task(title, priority, duration_minutes, category) ==
    [title |-> title, priority |-> priority, duration |-> duration_minutes,
     category |-> category, scheduled |-> FALSE, start_time |-> NoTime,
     end_time |-> NoTime, completed |-> FALSE]

\* line 98 with the key (priority, duration): shorter tasks first
KeyLess_shortest_first(ts, i, j) ==
    \/ ts[i].priority < ts[j].priority
    \/ ts[i].priority = ts[j].priority /\ ts[i].duration < ts[j].duration

\* line 98: the sort key (priority, -duration), compared as Python compares tuples
KeyLess(ts, i, j) ==
    \/ ts[i].priority < ts[j].priority
    \/ ts[i].priority = ts[j].priority /\ -ts[i].duration < -ts[j].duration

\* line 98: sorted(..., key=...), a stable sort; s is a sequence of positions of ts
RECURSIVE sort_by_key(_, _)
sort_by_key(ts, s) ==
    IF s = <<>> THEN <<>>
    ELSE LET sorted == sort_by_key(ts, SubSeq(s, 1, Len(s) - 1))
             x == s[Len(s)]
             k == Cardinality({i \in 1..Len(sorted) : ~KeyLess(ts, x, sorted[i])})
         IN  SubSeq(sorted, 1, k) \o <<x>> \o SubSeq(sorted, k + 1, Len(sorted))

\* line 97 without the filter: completed tasks are kept
candidate_any(task) == TRUE

\* line 97: the filter of get_prioritized_tasks
candidate(task) == ~task.completed

\* lines 96-98.  The function returns the task dicts themselves, so the result
\* is the sequence of their positions in st.session_state.tasks (1-based).
get_prioritized_tasks(ts) ==
    sort_by_key(ts, SelectSeq([i \in 1..Len(ts) |-> i], LAMBDA i : candidate(ts[i])))

Width(slot) == slot[2] - slot[1]

\* line 135 without reverse=True: narrowest slot first
RECURSIVE sort_slots_ascending(_)
sort_slots_ascending(s) ==
    IF s = <<>> THEN <<>>
    ELSE LET sorted == sort_slots_ascending(SubSeq(s, 1, Len(s) - 1))
             x == s[Len(s)]
             k == Cardinality({i \in 1..Len(sorted) : Width(sorted[i]) <= Width(x)})
         IN  SubSeq(sorted, 1, k) \o <<x>> \o SubSeq(sorted, k + 1, Len(sorted))

\* line 135: free_slots.sort(key=width, reverse=True); stable, equal widths keep
\* their order
RECURSIVE sort_slots(_)
sort_slots(s) ==
    IF s = <<>> THEN <<>>
    ELSE LET sorted == sort_slots(SubSeq(s, 1, Len(s) - 1))
             x == s[Len(s)]
             k == Cardinality({i \in 1..Len(sorted) : Width(sorted[i]) >= Width(x)})
         IN  SubSeq(sorted, 1, k) \o <<x>> \o SubSeq(sorted, k + 1, Len(sorted))

\* lines 145-147 without the test of line 147: the first slot is taken
first_fit_unchecked(free_slots, task_duration) ==
    IF free_slots = <<>> THEN 0 ELSE 1

\* lines 145-147: index of the first slot wide enough, 0 when there is none
first_fit(free_slots, task_duration) ==
    LET fits == {i \in 1..Len(free_slots) : task_duration <= Width(free_slots[i])}
    IN  IF fits = {} THEN 0 ELSE CHOOSE i \in fits : \A j \in fits : i <= j

\* lines 153-156 left out: the slot keeps its start
shrink_unchanged(free_slots, i, task_duration) == free_slots

\* lines 153-156: the slot list after a task of width task_duration took slot i
shrink(free_slots, i, task_duration) ==
    LET new_start == free_slots[i][1] + task_duration
        end == free_slots[i][2]
    IN  IF new_start >= end
        THEN SubSeq(free_slots, 1, i - 1) \o SubSeq(free_slots, i + 1, Len(free_slots))
        ELSE [free_slots EXCEPT ![i] = <<new_start, end>>]

\* lines 140-141 without the test: every task of the list is attempted
skip_never(task) == FALSE

\* lines 140-141: if task["scheduled"]: continue
skip(task) == task.scheduled

\* lines 139-157: the loop over get_prioritized_tasks().  order is the sequence
\* of positions the loop visits, k the position in it; log records, per attempt,
\* the task, the slot list the attempt scanned, the slot index chosen (0: none)
\* and the interval assigned.
RECURSIVE pack(_, _, _, _, _, _)
pack(order, k, ts, free_slots, buffer_time, log) ==
    IF k > Len(order)
    THEN [tasks |-> ts, free_slots |-> free_slots, log |-> log]
    ELSE LET idx == order[k]
             task == ts[idx]
             task_duration == task.duration + buffer_time
             i == first_fit(free_slots, task_duration)
         IN  IF skip(task)
             THEN pack(order, k + 1, ts, free_slots, buffer_time, log)
             ELSE IF i = 0
             THEN pack(order, k + 1, ts, free_slots, buffer_time,
                       Append(log, [task |-> idx, slots |-> free_slots, slot |-> 0,
                                    start |-> NoTime, end |-> NoTime]))
             ELSE LET start == free_slots[i][1]
                  IN  pack(order, k + 1,
                           [ts EXCEPT ![idx].scheduled = TRUE,
                                      ![idx].start_time = start,
                                      ![idx].end_time = start + task_duration],
                           shrink(free_slots, i, task_duration), buffer_time,
                           Append(log, [task |-> idx, slots |-> free_slots, slot |-> i,
                                        start |-> start,
                                        end |-> start + task_duration]))

\* ------------------------------------------------------------------------
\* State
\* ------------------------------------------------------------------------
VARIABLES
    tasks,            \* st.session_state.tasks
    tasks_file,       \* tasks.json: whether it exists, and the list it holds
    calendar_events,  \* the module-level list calendar_events
    day_start_hour,   \* st.session_state.day_start_hour
    day_end_hour,     \* st.session_state.day_end_hour
    buffer_minutes,   \* st.session_state.buffer_minutes
    message,          \* what the last handler showed (st.warning / st.success ...)
    run,              \* history: the last step, if it was a schedule_tasks run
    call              \* a call of find_free_slots on its own: inputs and result

vars == <<tasks, tasks_file, calendar_events, day_start_hour, day_end_hour,
          buffer_minutes, message, run, call>>

\* lines 27, 30, 33: the values the session starts with
DefaultDayStartHour == 8
DefaultDayEndHour == 20
DefaultBufferMinutes == 5

NoRun ==
    [valid |-> FALSE, before |-> <<>>, events |-> <<>>, day_start |-> 0, day_end |-> 0,
     buffer |-> 0, busy |-> <<>>, free_slots |-> <<>>, order |-> <<>>, log |-> <<>>,
     remaining |-> <<>>]

NoCall == [done |-> FALSE, events |-> <<>>, day_start |-> 0, day_end |-> 0, result |-> <<>>]

\* lines 63-65: json.dump of the task list
save_tasks(ts) == [exists |-> TRUE, content |-> ts]

\* ------------------------------------------------------------------------
\* Operations
\* ------------------------------------------------------------------------

\* lines 67-79
add_task(title, priority, duration_minutes, category) ==
    /\ Len(tasks) < MaxTasks
    /\ tasks' = Append(tasks, new_task(title, priority, duration_minutes, category))
    /\ tasks_file' = save_tasks(tasks')
    /\ message' = ""
    /\ run' = NoRun
    /\ UNCHANGED <<calendar_events, day_start_hour, day_end_hour, buffer_minutes, call>>

\* lines 81-83 (index is the 1-based position of the model)
delete_task(index) ==
    /\ index \in 1..Len(tasks)
    /\ tasks' = SubSeq(tasks, 1, index - 1) \o SubSeq(tasks, index + 1, Len(tasks))
    /\ tasks_file' = save_tasks(tasks')
    /\ message' = ""
    /\ run' = NoRun
    /\ UNCHANGED <<calendar_events, day_start_hour, day_end_hour, buffer_minutes, call>>

\* lines 85-90
edit_task(index, new_title, new_priority, new_duration, new_category) ==
    /\ index \in 1..Len(tasks)
    /\ tasks' = [tasks EXCEPT ![index].title = new_title,
                              ![index].priority = new_priority,
                              ![index].duration = new_duration,
                              ![index].category = new_category]
    /\ tasks_file' = save_tasks(tasks')
    /\ message' = ""
    /\ run' = NoRun
    /\ UNCHANGED <<calendar_events, day_start_hour, day_end_hour, buffer_minutes, call>>

\* line 93 writing the scheduled field instead of completed
toggled_scheduled(ts, index) == [ts EXCEPT ![index].scheduled = ~ts[index].scheduled]

\* line 93
toggled(ts, index) == [ts EXCEPT ![index].completed = ~ts[index].completed]

\* lines 92-94
toggle_task_completion(index) ==
    /\ index \in 1..Len(tasks)
    /\ tasks' = toggled(tasks, index)
    /\ tasks_file' = save_tasks(tasks')
    /\ message' = ""
    /\ run' = NoRun
    /\ UNCHANGED <<calendar_events, day_start_hour, day_end_hour, buffer_minutes, call>>

\* lines 321-325: Clear All Tasks
clear_all_tasks ==
    /\ tasks # <<>>
    /\ tasks' = <<>>
    /\ tasks_file' = save_tasks(tasks')
    /\ message' = "All tasks cleared!"
    /\ run' = NoRun
    /\ UNCHANGED <<calendar_events, day_start_hour, day_end_hour, buffer_minutes, call>>

\* lines 183-185: the sidebar writes the three settings
settings(start_hour, end_hour, buffer) ==
    /\ <<start_hour, end_hour, buffer>> # <<day_start_hour, day_end_hour, buffer_minutes>>
    /\ day_start_hour' = start_hour
    /\ day_end_hour' = end_hour
    /\ buffer_minutes' = buffer
    /\ message' = ""
    /\ run' = NoRun
    /\ UNCHANGED <<tasks, tasks_file, calendar_events, call>>

\* line 60: sorted(events, key=start); an all-day event has no dateTime and its
\* 'date' key sorts before every dateTime of that date, as NoTime does here
RECURSIVE sort_events(_)
sort_events(s) ==
    IF s = <<>> THEN <<>>
    ELSE LET sorted == sort_events(SubSeq(s, 1, Len(s) - 1))
             x == s[Len(s)]
             k == Cardinality({i \in 1..Len(sorted) : sorted[i].start <= x.start})
         IN  SubSeq(sorted, 1, k) \o <<x>> \o SubSeq(sorted, k + 1, Len(sorted))

\* lines 218-225: Fetch Calendar Events, the API call answering with items
fetch_calendar(items) ==
    /\ calendar_events' = sort_events(items)
    /\ message' = IF calendar_events' = <<>> THEN "No upcoming events found."
                  ELSE "Found events"
    /\ run' = NoRun
    /\ UNCHANGED <<tasks, tasks_file, day_start_hour, day_end_hour, buffer_minutes, call>>

\* lines 219-220, 226-227: the API call raises
fetch_calendar_failed ==
    /\ calendar_events' = <<>>
    /\ message' = "Failed to fetch calendar"
    /\ run' = NoRun
    /\ UNCHANGED <<tasks, tasks_file, day_start_hour, day_end_hour, buffer_minutes, call>>

\* lines 125-128
day_start == day_start_hour * 60
day_end == day_end_hour * 60

\* lines 134-157: what a run computes from the state it starts in
packing ==
    LET found == find_free_slots(calendar_events, day_start, day_end)
        free_slots == sort_slots(found)
        order == get_prioritized_tasks(tasks)
        r == pack(order, 1, tasks, free_slots, buffer_minutes, <<>>)
    IN  [valid |-> TRUE, before |-> tasks, events |-> calendar_events,
         day_start |-> day_start, day_end |-> day_end, buffer |-> buffer_minutes,
         busy |-> busy_slots(calendar_events), free_slots |-> free_slots,
         order |-> order, log |-> r.log, remaining |-> r.free_slots, tasks |-> r.tasks]

\* lines 124-159
schedule_tasks ==
    IF calendar_events = <<>>
    THEN /\ message' = "No calendar events found to schedule around"
         /\ run' = NoRun
         /\ UNCHANGED <<tasks, tasks_file>>
    ELSE LET p == packing
         IN  /\ tasks' = p.tasks
             /\ tasks_file' = save_tasks(tasks')
             /\ run' = [f \in DOMAIN NoRun |-> p[f]]

\* lines 231-236: Schedule Tasks Automatically
smart_scheduler ==
    /\ IF calendar_events = <<>>
       THEN /\ message' = "Please fetch calendar first!"
            /\ run' = NoRun
            /\ UNCHANGED <<tasks, tasks_file>>
       ELSE /\ schedule_tasks
            /\ message' = "Tasks scheduled into free time!"
    /\ UNCHANGED <<calendar_events, day_start_hour, day_end_hour, buffer_minutes, call>>

\* ------------------------------------------------------------------------
\* Inputs the operations are driven with
\* ------------------------------------------------------------------------
\* One title, one priority and one category keep the task store small; the
\* order among priorities is exercised by SpecExamples below.
Titles == {"A"}
Priorities == {1}
Durations == {30, 60}
Categories == {"Work"}
StartHours == {DefaultDayStartHour}
EndHours == {DefaultDayEndHour}
Buffers == {0, DefaultBufferMinutes}

Event(start, end) == [start |-> start, end |-> end]
AllDayEvent == Event(NoTime, NoTime)

\* what the calendar API answers with, around the default window 8:00-20:00
\* (480..1200); the API call covers the next 24 hours, so events may lie past
\* day_end
EventFeeds ==
    { <<>>,
      <<Event(480, 1200)>>,                       \* the whole window is busy
      \* overlapping blocks, an all-day event and a block past day_end: the
      \* gaps are 8:00-9:00 and 20:00-20:30
      <<Event(1230, 1260), Event(540, 1200), AllDayEvent, Event(570, 600)>> }

SeqsUpTo(S, n) == UNION {[1..k -> S] : k \in 0..n}

Init ==
    /\ tasks = <<>>
    /\ tasks_file = [exists |-> FALSE, content |-> <<>>]
    /\ calendar_events = <<>>
    /\ day_start_hour = DefaultDayStartHour
    /\ day_end_hour = DefaultDayEndHour
    /\ buffer_minutes = DefaultBufferMinutes
    /\ message = ""
    /\ run = NoRun
    /\ call = NoCall

Next ==
    \/ \E t \in Titles, p \in Priorities, d \in Durations, c \in Categories :
          add_task(t, p, d, c)
    \/ \E i \in 1..Len(tasks) : delete_task(i)
    \/ \E i \in 1..Len(tasks), t \in Titles, p \in Priorities, d \in Durations,
          c \in Categories : edit_task(i, t, p, d, c)
    \/ \E i \in 1..Len(tasks) : toggle_task_completion(i)
    \/ clear_all_tasks
    \/ \E sh \in StartHours, eh \in EndHours, b \in Buffers : settings(sh, eh, b)
    \/ \E items \in EventFeeds : fetch_calendar(items)
    \/ fetch_calendar_failed
    \/ smart_scheduler

Spec == Init /\ [][Next]_vars

\* ------------------------------------------------------------------------
\* The worked examples: the session starts from a tasks.json that holds the
\* tasks of the example (lines 19-22), in any stored order
\* ------------------------------------------------------------------------
TaskA == new_task("A", 1, 30, "Work")
TaskB == new_task("B", 2, 60, "Work")
TaskC == new_task("C", 1, 90, "Work")
TaskLarge(p) == new_task("Large", p, 100, "Work")
TaskSmall(p) == new_task("Small", p, 10, "Work")
TaskTwin(title) == new_task(title, 1, 30, "Work")

Orders(S) == {s \in [1..Cardinality(S) -> S] : \A x \in S : \E i \in DOMAIN s : s[i] = x}

ExampleFiles ==
    Orders({TaskA, TaskB, TaskC})
      \cup Orders({TaskLarge(1), TaskSmall(1)})
      \cup Orders({TaskLarge(1), TaskSmall(2)})
      \cup Orders({TaskTwin("T1"), TaskTwin("T2")})

OneSlotFeed == <<Event(600, 1200)>>      \* leaves 8:00-10:00
TwoSlotFeed == <<Event(570, 1180)>>      \* leaves 8:00-9:30 (90) and 19:40-20:00 (20)
ExampleFeeds == {OneSlotFeed, TwoSlotFeed}

InitExamples ==
    /\ tasks \in ExampleFiles
    /\ tasks_file = [exists |-> TRUE, content |-> tasks]
    /\ calendar_events = <<>>
    /\ day_start_hour = DefaultDayStartHour
    /\ day_end_hour = DefaultDayEndHour
    /\ buffer_minutes = DefaultBufferMinutes
    /\ message = ""
    /\ run = NoRun
    /\ call = NoCall

NextExamples ==
    \/ \E i \in 1..Len(tasks) : toggle_task_completion(i)
    \/ \E b \in Buffers : settings(DefaultDayStartHour, DefaultDayEndHour, b)
    \/ \E items \in ExampleFeeds : fetch_calendar(items)
    \/ smart_scheduler

SpecExamples == InitExamples /\ [][NextExamples]_vars

\* ------------------------------------------------------------------------
\* find_free_slots on its own: any busy list against any window
\* ------------------------------------------------------------------------
Grid == {420, 480, 540, 570, 600, 660, 720, 780, 840}

CallEvents ==
    {ev \in [start : Grid, end : Grid] : ev.start <= ev.end} \cup {AllDayEvent}

\* <<day_start, day_end>>, day_start <= day_end
CallWindows == {<<480, 720>>, <<540, 660>>, <<600, 600>>}

InitCall ==
    /\ tasks = <<>>
    /\ tasks_file = [exists |-> FALSE, content |-> <<>>]
    /\ calendar_events = <<>>
    /\ day_start_hour = DefaultDayStartHour
    /\ day_end_hour = DefaultDayEndHour
    /\ buffer_minutes = DefaultBufferMinutes
    /\ message = ""
    /\ run = NoRun
    /\ \E events \in SeqsUpTo(CallEvents, MaxEvents), w \in CallWindows :
          call = [done |-> FALSE, events |-> events, day_start |-> w[1],
                  day_end |-> w[2], result |-> <<>>]

call_find_free_slots ==
    /\ ~call.done
    /\ call' = [call EXCEPT !.done = TRUE,
                            !.result = find_free_slots(call.events, call.day_start,
                                                       call.day_end)]
    /\ UNCHANGED <<tasks, tasks_file, calendar_events, day_start_hour, day_end_hour,
                   buffer_minutes, message, run>>

NextCall == call_find_free_slots

SpecCall == InitCall /\ [][NextCall]_vars

\* half-open intervals [a[1], a[2]) and [b[1], b[2]) share an instant
Overlaps(a, b) == Max(a[1], b[1]) < Min(a[2], b[2])

Inside(t, a) == a[1] <= t /\ t < a[2]

\* C4: the result of find_free_slots is ordered and pairwise disjoint, lies
\* inside [day_start, day_end], and covers exactly the instants of the window
\* that no busy interval covers.  Every bound of the inputs is an instant of
\* Grid, so two unions of intervals are equal iff they hold the same instants
\* of Grid.
C4_ExactComplement ==
    call.done =>
        LET busy == busy_slots(call.events)
            free == call.result
        IN  /\ \A i \in 1..Len(free), j \in 1..Len(free) :
                  i < j => free[i][2] <= free[j][1]
            /\ \A i \in 1..Len(free) :
                  call.day_start <= free[i][1] /\ free[i][2] <= call.day_end
            /\ \A t \in Grid :
                  (\E i \in 1..Len(free) : Inside(t, free[i]))
                     <=> /\ call.day_start <= t /\ t < call.day_end
                         /\ ~\E k \in 1..Len(busy) : Inside(t, busy[k])

\* C5: every interval find_free_slots returns is non-empty and shares no
\* instant with any busy interval, in whatever order the busy list comes; busy
\* 9:00-10:00 and 9:30-11:00 in the window 8:00-12:00 give 8:00-9:00 and
\* 11:00-12:00.
C5_NoSpuriousGap ==
    call.done =>
        LET busy == busy_slots(call.events)
            free == call.result
        IN  /\ \A i \in 1..Len(free) :
                  /\ free[i][1] < free[i][2]
                  /\ \A k \in 1..Len(busy) : ~Overlaps(free[i], busy[k])
            /\ ( /\ call.events \in {<<Event(540, 600), Event(570, 660)>>,
                                     <<Event(570, 660), Event(540, 600)>>}
                 /\ call.day_start = 480 /\ call.day_end = 720 )
               => free = << <<480, 540>>, <<660, 720>> >>

C5_Witness ==
    /\ call.done
    /\ call.events = <<Event(570, 660), Event(540, 600)>>
    /\ call.day_start = 480 /\ call.day_end = 720
    /\ call.result = << <<480, 540>>, <<660, 720>> >>

\* ------------------------------------------------------------------------
\* Claims on the task store and the packing run
\* ------------------------------------------------------------------------
Reserved(task) == <<task.start_time, task.end_time>>

SchedulingFields(task) == <<task.scheduled, task.start_time, task.end_time>>

\* the entries of the last run's log that assigned an interval
Placed == {k \in 1..Len(run.log) : run.log[k].slot # 0}

SuccessMessage == "Tasks scheduled into free time!"

\* C1: no two scheduled tasks have overlapping reserved intervals
\* [start_time, end_time), in any reachable state.
C1_NoTaskOverlap ==
    \A i \in 1..Len(tasks), j \in 1..Len(tasks) :
        (i < j /\ tasks[i].scheduled /\ tasks[j].scheduled)
            => ~Overlaps(Reserved(tasks[i]), Reserved(tasks[j]))

\* C2: every interval a schedule_tasks run assigns shares no instant with any
\* busy interval handed to find_free_slots in that run.
C2_AssignedAvoidsBusy ==
    run.valid =>
        \A k \in Placed : \A b \in 1..Len(run.busy) :
            ~Overlaps(<<run.log[k].start, run.log[k].end>>, run.busy[b])

C2_Witness ==
    /\ run.valid
    /\ Placed # {}
    /\ \E a \in 1..Len(run.busy), b \in 1..Len(run.busy) :
          a # b /\ Overlaps(run.busy[a], run.busy[b])

\* C3: every scheduled task has start_time and end_time set, end_time -
\* start_time being its current duration plus the current buffer setting.
C3_ReservedWidth ==
    \A i \in 1..Len(tasks) :
        tasks[i].scheduled =>
            /\ tasks[i].start_time # NoTime
            /\ tasks[i].end_time # NoTime
            /\ tasks[i].end_time - tasks[i].start_time
                 = tasks[i].duration + buffer_minutes

\* C6: a run whose free-slot list is empty leaves the tasks as they were and
\* does not report success.
C6_NoFreeTimeReported ==
    (run.valid /\ run.free_slots = <<>>)
        => (tasks = run.before /\ message # SuccessMessage)

\* C7: a run leaves scheduled, start_time and end_time of every task that was
\* scheduled when it began as they were, and assigns no task twice; a run over
\* a list whose tasks are all scheduled changes nothing.
C7_ScheduledUntouched ==
    run.valid =>
        /\ Len(tasks) = Len(run.before)
        /\ \A i \in 1..Len(run.before) :
              run.before[i].scheduled
                  => SchedulingFields(tasks[i]) = SchedulingFields(run.before[i])
        /\ \A k \in Placed, l \in Placed :
              run.log[k].task = run.log[l].task => k = l
        /\ (\A i \in 1..Len(run.before) : run.before[i].scheduled)
              => tasks = run.before

\* a run that met a scheduled task it could have placed again after the
\* settings changed, and placed another task
C7_Witness ==
    /\ run.valid
    /\ \E i \in 1..Len(run.before), j \in 1..Len(run.before) :
          /\ run.before[i].scheduled /\ ~run.before[i].completed
          /\ run.before[i].end_time - run.before[i].start_time
               # run.before[i].duration + run.buffer
          /\ ~run.before[j].scheduled /\ tasks[j].scheduled

\* C8: the tasks a run attempts come in order of priority ascending and, at
\* equal priority, duration descending; with A(1, 30), B(2, 60), C(1, 90) in
\* any stored order, the single slot 8:00-10:00 and buffer 0, C gets
\* 8:00-9:30, A gets 9:30-10:00 and B stays unscheduled.
C8_PriorityOrder ==
    run.valid =>
        /\ \A k \in 1..Len(run.log), l \in 1..Len(run.log) :
              k < l =>
                 LET t == run.before[run.log[k].task]
                     u == run.before[run.log[l].task]
                 IN  \/ t.priority < u.priority
                     \/ t.priority = u.priority /\ t.duration >= u.duration
        /\ ( /\ run.before \in Orders({TaskA, TaskB, TaskC})
             /\ run.events = OneSlotFeed /\ run.day_start = 480 /\ run.day_end = 1200
             /\ run.buffer = 0 )
           => \A i \in 1..Len(tasks) :
                 /\ tasks[i].title = "C" => SchedulingFields(tasks[i]) = <<TRUE, 480, 570>>
                 /\ tasks[i].title = "A" => SchedulingFields(tasks[i]) = <<TRUE, 570, 600>>
                 /\ tasks[i].title = "B" => SchedulingFields(tasks[i]) = <<FALSE, NoTime, NoTime>>

C8_Witness ==
    /\ run.valid
    /\ run.before = <<TaskB, TaskA, TaskC>>
    /\ run.free_slots = << <<480, 600>> >>
    /\ run.buffer = 0
    /\ tasks[3].scheduled /\ tasks[2].scheduled /\ ~tasks[1].scheduled

\* the run of the greedy example: the busy block 9:30-19:40 leaves slots of
\* width 90 and 20 in the window 8:00-20:00, buffer 0, the 100-minute task
\* ahead of the 10-minute task, both unscheduled
GreedyExample ==
    /\ run.valid
    /\ \E p \in {1, 2} : run.before \in Orders({TaskLarge(1), TaskSmall(p)})
    /\ run.events = TwoSlotFeed /\ run.day_start = 480 /\ run.day_end = 1200
    /\ run.buffer = 0

\* C9 as stated: the 100-minute task stays unscheduled, the 10-minute task
\* is placed in the 20-minute slot and the 90-minute slot is untouched.
C9_SmallInNarrowSlot ==
    GreedyExample =>
        /\ \A i \in 1..Len(tasks) :
              /\ tasks[i].title = "Large"
                    => SchedulingFields(tasks[i]) = <<FALSE, NoTime, NoTime>>
              /\ tasks[i].title = "Small"
                    => SchedulingFields(tasks[i]) = <<TRUE, 1180, 1190>>
        /\ \E k \in 1..Len(run.remaining) : run.remaining[k] = <<480, 570>>

\* C9 amended: the 100-minute task stays unscheduled, the 10-minute task is
\* placed at the start of the 90-minute slot, the first of the list in
\* descending width, and the 20-minute slot is untouched.
C9_SmallInWidestSlot ==
    GreedyExample =>
        /\ \A i \in 1..Len(tasks) :
              /\ tasks[i].title = "Large"
                    => SchedulingFields(tasks[i]) = <<FALSE, NoTime, NoTime>>
              /\ tasks[i].title = "Small"
                    => SchedulingFields(tasks[i]) = <<TRUE, 480, 490>>
        /\ run.remaining = << <<490, 570>>, <<1180, 1200>> >>

C9_Witness ==
    /\ GreedyExample
    /\ Len(run.log) = 2
    /\ run.before[run.log[1].task].title = "Large" /\ run.log[1].slot = 0
    /\ run.before[run.log[2].task].title = "Small" /\ run.log[2].slot = 1

\* C10: add_task appends an unscheduled task without times and leaves the
\* other tasks alone; edit_task and toggle_task_completion leave scheduled,
\* start_time and end_time of every task as they were, toggle changing the
\* completed field of one task and nothing else; no step other than a packing
\* run schedules a task or gives it times.
C10_OnlyPackerSchedules ==
    [][ /\ (\E t \in Titles, p \in Priorities, d \in Durations, c \in Categories :
               add_task(t, p, d, c))
            => /\ Len(tasks') = Len(tasks) + 1
               /\ SubSeq(tasks', 1, Len(tasks)) = tasks
               /\ SchedulingFields(tasks'[Len(tasks')]) = <<FALSE, NoTime, NoTime>>
        /\ (\E i \in 1..Len(tasks), t \in Titles, p \in Priorities, d \in Durations,
               c \in Categories : edit_task(i, t, p, d, c))
            => /\ Len(tasks') = Len(tasks)
               /\ \A i \in 1..Len(tasks) :
                     SchedulingFields(tasks'[i]) = SchedulingFields(tasks[i])
        /\ (\E i \in 1..Len(tasks) : toggle_task_completion(i))
            => /\ Len(tasks') = Len(tasks)
               /\ \E i \in 1..Len(tasks) :
                     /\ tasks' = [tasks EXCEPT ![i].completed = ~tasks[i].completed]
                     /\ SchedulingFields(tasks'[i]) = SchedulingFields(tasks[i])
        /\ \/ \A i \in 1..Len(tasks') :
                 tasks'[i].scheduled
                    => \E j \in 1..Len(tasks) :
                          /\ tasks[j].scheduled
                          /\ Reserved(tasks[j]) = Reserved(tasks'[i])
           \/ smart_scheduler
      ]_vars

\* a scheduled task was toggled to completed and is still scheduled; a
\* scheduled task was edited and kept its times
C10_Witness ==
    \E i \in 1..Len(tasks), j \in 1..Len(tasks) :
        /\ tasks[i].scheduled /\ tasks[i].completed /\ tasks[i].start_time # NoTime
        /\ tasks[j].scheduled
        /\ \A b \in Buffers :
              tasks[j].end_time - tasks[j].start_time # tasks[j].duration + b

\* the slot list the attempt after log entry k scans: the next entry's, or
\* the list the run ends with
SlotsAfter(k) == IF k < Len(run.log) THEN run.log[k + 1].slots ELSE run.remaining

\* C11: the slot list is in descending width when the run starts; each
\* attempt with needed = duration + buffer takes the first slot of the list as
\* it stands whose width is at least needed, the task gets start_time = the
\* slot's start s and end_time = s + needed, and the slot becomes
\* (s + needed, e) in place, or is removed when nothing is left of it; two
\* 30-minute tasks with buffer 5 in the slot 8:00-10:00 get 8:00-8:35 and
\* 8:35-9:10.
C11_FirstFitPlacement ==
    run.valid =>
        /\ \A i \in 1..Len(run.free_slots), j \in 1..Len(run.free_slots) :
              i < j => Width(run.free_slots[i]) >= Width(run.free_slots[j])
        /\ Len(run.log) > 0 => run.log[1].slots = run.free_slots
        /\ \A k \in 1..Len(run.log) :
              LET entry == run.log[k]
                  slots == entry.slots
                  needed == run.before[entry.task].duration + run.buffer
                  fits == {i \in 1..Len(slots) : slots[i][2] - slots[i][1] >= needed}
              IN  IF fits = {} THEN entry.slot = 0
                  ELSE LET i == entry.slot
                           s == slots[i][1]
                           e == slots[i][2]
                       IN  /\ i \in fits /\ \A j \in fits : i <= j
                           /\ SchedulingFields(tasks[entry.task]) = <<TRUE, s, s + needed>>
                           /\ IF s + needed < e
                              THEN SlotsAfter(k) = [slots EXCEPT ![i] = <<s + needed, e>>]
                              ELSE /\ Len(SlotsAfter(k)) = Len(slots) - 1
                                   /\ \A j \in 1..Len(slots) - 1 :
                                         SlotsAfter(k)[j] = slots[IF j < i THEN j ELSE j + 1]
        /\ ( /\ run.before \in Orders({TaskTwin("T1"), TaskTwin("T2")})
             /\ run.events = OneSlotFeed /\ run.day_start = 480 /\ run.day_end = 1200
             /\ run.buffer = 5 )
           => /\ SchedulingFields(tasks[1]) = <<TRUE, 480, 515>>
              /\ SchedulingFields(tasks[2]) = <<TRUE, 515, 550>>

\* the second 30-minute task starts 35 minutes after the first, in the same slot
C11_Witness ==
    /\ run.valid
    /\ run.before \in Orders({TaskTwin("T1"), TaskTwin("T2")})
    /\ run.buffer = 5
    /\ Len(run.log) = 2
    /\ run.log[1].slot = 1 /\ run.log[2].slot = 1
    /\ run.log[2].start = run.log[1].start + 35

\* C12 as stated: a task that is unscheduled and completed when a run begins,
\* and whose duration + buffer fits a slot the run leaves over (so that it
\* fitted at its turn, the slots only shrinking), is scheduled by the run.
C12_CompletedIsCandidate ==
    run.valid =>
        \A i \in 1..Len(run.before) :
            ( /\ ~run.before[i].scheduled /\ run.before[i].completed
              /\ \E k \in 1..Len(run.remaining) :
                    Width(run.remaining[k]) >= run.before[i].duration + run.buffer )
                => tasks[i].scheduled

\* C12 amended: the candidates of a run are the tasks with scheduled == false
\* and completed == false; a task that is completed when the run begins is
\* not attempted and keeps all its fields, also when it is unscheduled and a
\* slot wide enough for it is left.
C12_UncompletedAreCandidates ==
    run.valid =>
        /\ {run.log[k].task : k \in 1..Len(run.log)}
             = {i \in 1..Len(run.before) :
                   ~run.before[i].scheduled /\ ~run.before[i].completed}
        /\ \A i \in 1..Len(run.before) :
              run.before[i].completed => tasks[i] = run.before[i]

\* a run met an unscheduled completed task, left a slot wide enough for it and
\* placed another task
C12_Witness ==
    /\ run.valid
    /\ Placed # {}
    /\ \E i \in 1..Len(run.before) :
          /\ ~run.before[i].scheduled /\ run.before[i].completed
          /\ \E k \in 1..Len(run.remaining) :
                Width(run.remaining[k]) >= run.before[i].duration + run.buffer

\* needed = duration + buffer of the task of log entry k exceeds the width of
\* every slot the attempt scanned
FitsNowhere(k) ==
    \A i \in 1..Len(run.log[k].slots) :
        Width(run.log[k].slots[i])
            < run.before[run.log[k].task].duration + run.buffer

\* C13: a candidate whose duration + buffer exceeds every slot left at its
\* turn is not placed and ends the run unscheduled without times, its attempt
\* leaves the slot list as it was, and the run completes with every candidate
\* attempted, the following ones included.
C13_UnfittableSkipped ==
    run.valid =>
        /\ \A k \in 1..Len(run.log) :
              FitsNowhere(k) =>
                 /\ run.log[k].slot = 0
                 /\ SchedulingFields(tasks[run.log[k].task]) = <<FALSE, NoTime, NoTime>>
                 /\ SlotsAfter(k) = run.log[k].slots
        /\ \A i \in 1..Len(run.before) :
              (~run.before[i].scheduled /\ ~run.before[i].completed)
                 => \E k \in 1..Len(run.log) : run.log[k].task = i
        /\ message = SuccessMessage

\* a task that fitted nowhere was followed by a task that was placed
C13_Witness ==
    /\ run.valid
    /\ \E k \in 1..Len(run.log), l \in 1..Len(run.log) :
          /\ k < l
          /\ FitsNowhere(k) /\ run.log[k].slots # <<>>
          /\ run.log[l].slot # 0

\* C16: every interval a run assigns lies inside the day window of the run:
\* day_start <= start_time and end_time <= day_end.
C16_AssignedInsideWindow ==
    run.valid =>
        \A k \in Placed :
            run.day_start <= run.log[k].start /\ run.log[k].end <= run.day_end

\* ------------------------------------------------------------------------
\* The page: every UI event re-executes the script from its first line and
\* then runs the handler of the widget that was used
\* ------------------------------------------------------------------------

\* what the page shows while the script is executing and no handler has
\* reported yet
Running == "Running..."

\* lines 16-33: the top of the script.  Line 16 binds calendar_events to a new
\* empty list; the session state exists already and is kept.
script_top ==
    /\ message # Running
    /\ calendar_events' = <<>>
    /\ message' = Running
    /\ run' = NoRun
    /\ UNCHANGED <<tasks, tasks_file, day_start_hour, day_end_hour, buffer_minutes, call>>

\* line 245: the rows of the task list, one per element of
\* get_prioritized_tasks(), numbered by enumerate (1-based here)
Rows == 1..Len(get_prioritized_tasks(tasks))

\* lines 209-214: Add Task with a non-empty title
add_button(title, priority, duration, category) ==
    /\ message = Running
    /\ add_task(title, priority, duration, category)

\* lines 256-258: the complete button of row idx
complete_button(idx) ==
    /\ message = Running
    /\ idx \in Rows
    /\ toggle_task_completion(idx)

\* lines 265-267: the delete button of row idx
delete_button(idx) ==
    /\ message = Running
    /\ idx \in Rows
    /\ delete_task(idx)

\* lines 261-262, 269-281: the edit form of row idx, saved
edit_form(idx, new_title, new_priority, new_duration, new_category) ==
    /\ message = Running
    /\ idx \in Rows
    /\ edit_task(idx, new_title, new_priority, new_duration, new_category)

NextUI ==
    \/ script_top
    \/ \E t \in Titles, p \in Priorities, d \in Durations, c \in Categories :
          add_button(t, p, d, c)
    \/ \E idx \in 1..MaxTasks : complete_button(idx)
    \/ \E idx \in 1..MaxTasks : delete_button(idx)
    \/ \E idx \in 1..MaxTasks, t \in Titles, p \in Priorities, d \in Durations,
          c \in Categories : edit_form(idx, t, p, d, c)
    \/ message = Running /\ clear_all_tasks
    \/ \E sh \in StartHours, eh \in EndHours, b \in Buffers :
          message = Running /\ settings(sh, eh, b)
    \/ \E items \in EventFeeds : message = Running /\ fetch_calendar(items)
    \/ message = Running /\ fetch_calendar_failed
    \/ message = Running /\ smart_scheduler

SpecUI == Init /\ [][NextUI]_vars

FetchMessages == {"Found events", "No upcoming events found.", "Failed to fetch calendar"}

\* C14: events that were fetched stay in calendar_events until the next fetch,
\* so that a later click on Schedule Tasks Automatically finds them.
C14_FetchedEventsSurvive ==
    [][ calendar_events # <<>>
           => (calendar_events' = calendar_events \/ message' \in FetchMessages) ]_vars

\* C15: the task shown in row idx of the task list is the task stored at
\* position idx of st.session_state.tasks, the one the buttons of the row
\* modify.
C15_RowIsStoredTask ==
    \A idx \in Rows : tasks[get_prioritized_tasks(tasks)[idx]] = tasks[idx]

====
